---- MODULE Spec2Model ----
(***************************************************************************)
(* Model of the desktop shell of the music player: the Default             *)
(* Configuration Table (config/defaults), the plugin registry and the CSS  *)
(* injection helper (plugins/utils.ts) and the menu builder (menu.ts).     *)
(*                                                                         *)
(* Four specifications share the module:                                   *)
(*   SpecPlugins  getAvailablePluginNames as a pure function of the        *)
(*                platform and the declared plugin keys;                   *)
(*   SpecCss      injectCSS / injectCSSAsFile / did-finish-load;           *)
(*   Spec         the click handlers of the Plugins and Options submenus   *)
(*                (the Proxy checkbox excepted), 'Restart App' and the     *)
(*                Config Store;                                            *)
(*   SpecProxy    the Proxy checkbox and setProxy, with the menu rebuilds  *)
(*                and restarts that can come while a prompt is open.       *)
(* The Config Store (config/index) and restart (providers/app-controls)    *)
(* are not among the source files; they follow the specification's 4.1.    *)
(* Whether restart() returns to the handler that triggered it is left open *)
(* there: a run is of either kind of build.                                *)
(***************************************************************************)
EXTENDS Naturals, Sequences, FiniteSets, TLC

VARIABLES
    \* ---- plugin registry (SpecPlugins)
    platform,       \* process.platform of the running process
    declared,       \* Object.keys(defaultConfig.plugins), in declaration order
    names,          \* the last result of getAvailablePluginNames()
    called,         \* whether getAvailablePluginNames() has been called
    \* ---- CSS injection helper (SpecCss)
    cssToInject,      \* Map css -> callback (module-level, shared by all targets)
    cssToInjectFile,  \* Map filepath -> callback (module-level)
    listeners,        \* per webContents: number of did-finish-load observers
    readable,         \* the file paths fs.readFileSync can read
    inflight,         \* insertCSS promises not yet settled
    insertCalls,      \* per webContents: insertCSS calls started so far
    cbCalls,          \* completion callbacks invoked so far
    registeredFor,    \* history: the entries registered through each target
    loads,            \* history: number of did-finish-load events so far
    lastLoad,         \* history: the last did-finish-load event: its target, what
                      \* was registered for the target by then, what it started
    \* ---- menu and Config Store (Spec)
    store,          \* the persisted config: dotted path -> value, for the paths set
    hasMenu,        \* the plugins whose plugins/<name>/menu.js exists
    restartReturns, \* whether restart() returns to its caller, the process
                    \* ending once the handler has returned, or ends the
                    \* process inside the call (fixed for a run)
    menu,           \* the installed application menu (the last one built)
    proxyItem,      \* checked state of every Proxy item built in this process
    prompts,        \* the pending setProxy prompts, in the order they were opened
    themeDialogs,   \* the open 'Import custom CSS file' dialogs of this process
    last            \* history: the handler that ran last and what it did

pluginVars == <<platform, declared, names, called>>
cssVars == <<cssToInject, cssToInjectFile, listeners, readable, inflight,
             insertCalls, cbCalls, registeredFor, loads, lastLoad>>
menuVars == <<store, hasMenu, restartReturns, menu, proxyItem, prompts, themeDialogs, last>>
vars == <<pluginVars, cssVars, menuVars>>

\* JavaScript's undefined: what a lookup of an absent key gives. Not a string
\* any input of the model can be.
Undefined == "<undefined>"

(***************************************************************************)
(* Default Configuration Table                                             *)
(***************************************************************************)

\* The table, key for key.
defaultConfig ==
    ("window-size" :> [width |-> 1100, height |-> 550]) @@
    [url |-> "https://music.youtube.com",
     options |->
        [tray |-> FALSE,
         appVisible |-> TRUE,
         autoUpdates |-> TRUE,
         hideMenu |-> FALSE,
         startAtLogin |-> FALSE,
         disableHardwareAcceleration |-> FALSE,
         restartOnConfigChanges |-> FALSE,
         trayClickPlayPause |-> FALSE,
         autoResetAppCache |-> FALSE],
     plugins |->
        [navigation |-> [enabled |-> TRUE],
         shortcuts |-> [enabled |-> TRUE],
         adblocker |-> [enabled |-> TRUE, cache |-> TRUE,
                        additionalBlockLists |-> <<>>],
         downloader |-> [enabled |-> FALSE, ffmpegArgs |-> <<>>,
                         downloadFolder |-> Undefined]]]

\* Object.keys(defaultConfig.plugins): the keys in declaration order.
defaultPluginKeys == <<"navigation", "shortcuts", "adblocker", "downloader">>

(***************************************************************************)
(* Plugin registry: getAvailablePluginNames                                *)
(***************************************************************************)

\* process.platform: the three platforms the code names, and one it does not.
Platforms == {"win32", "darwin", "linux", "freebsd"}

\* electron-is
isWindows(p) == p = "win32"
isMacOS(p) == p = "darwin"
isLinux(p) == p = "linux"

\* The filter's callback: FALSE drops the name.
keepPlugin(p, name) ==
    IF isWindows(p) /\ name = "touchbar" THEN FALSE
    ELSE IF isMacOS(p) /\ name = "taskbar-mediacontrol" THEN FALSE
    ELSE IF isLinux(p) /\ (name = "taskbar-mediacontrol" \/ name = "touchbar")
        THEN FALSE
    ELSE TRUE

getAvailablePluginNames(p, keys) ==
    SelectSeq(keys, LAMBDA name : keepPlugin(p, name))

\* ---- inputs of SpecPlugins
MaxDeclared == 3
PluginNameUniverse == {"touchbar", "taskbar-mediacontrol", "navigation", "adblocker"}

NoDuplicates(s) == \A i, j \in 1..Len(s) : i # j => s[i] # s[j]

\* The key lists of a table: an object has no key twice.
DeclaredTables ==
    {defaultPluginKeys} \cup
    UNION { {s \in [1..n -> PluginNameUniverse] : NoDuplicates(s)} : n \in 0..MaxDeclared }

(***************************************************************************)
(* CSS injection helper                                                    *)
(***************************************************************************)

Targets == {"w1", "w2"}             \* the webContents the helper is called with
CssTexts == {"cssA", "cssB"}        \* inline stylesheets
FilePaths == {"fileA"}              \* stylesheet files
Callbacks == {Undefined, "cb"}      \* the optional completion callback
MaxLoads == 2                       \* did-finish-load events in a run

\* A Map as the sequence of its entries in insertion order.
MapKeys(m) == {m[i].key : i \in 1..Len(m)}
MapSize(m) == Len(m)

\* Map.prototype.set: a new key is appended, an existing key keeps its place
\* and takes the new value.
MapSet(m, k, v) ==
    IF k \in MapKeys(m)
        THEN [i \in 1..Len(m) |-> IF m[i].key = k THEN [key |-> k, cb |-> v] ELSE m[i]]
        ELSE Append(m, [key |-> k, cb |-> v])

\* webContents.on('did-finish-load', ...): one more observer on w.
setupCssInjection(w) ==
    listeners' = [listeners EXCEPT ![w] = @ + 1]

\* The test both registration functions make before they register.
NothingRegistered ==
    MapSize(cssToInject) = 0 /\ MapSize(cssToInjectFile) = 0

injectCSS(w, css, cb) ==
    /\ IF NothingRegistered
          THEN setupCssInjection(w)
          ELSE UNCHANGED listeners
    /\ cssToInject' = MapSet(cssToInject, css, cb)
    /\ registeredFor' = [registeredFor EXCEPT ![w] = @ \cup {<<"inline", css>>}]
    /\ UNCHANGED <<cssToInjectFile, readable, inflight, insertCalls, cbCalls,
                   loads, lastLoad>>
    /\ UNCHANGED <<pluginVars, menuVars>>

injectCSSAsFile(w, filepath, cb) ==
    /\ IF NothingRegistered
          THEN setupCssInjection(w)
          ELSE UNCHANGED listeners
    /\ cssToInjectFile' = MapSet(cssToInjectFile, filepath, cb)
    /\ registeredFor' = [registeredFor EXCEPT ![w] = @ \cup {<<"file", filepath>>}]
    /\ UNCHANGED <<cssToInject, readable, inflight, insertCalls, cbCalls,
                   loads, lastLoad>>
    /\ UNCHANGED <<pluginVars, menuVars>>

\* The entries one run of the observer starts an insertCSS call for: every
\* inline entry, and every file entry whose readFileSync does not throw (a
\* throw rejects that entry's promise before insertCSS is reached).
StartedBy(inline, files) ==
    {<<"inline", inline[i].key>> : i \in 1..Len(inline)} \cup
    {<<"file", files[i].key>> : i \in {j \in 1..Len(files) : files[j].key \in readable}}

\* The callbacks of the calls one run of the observer starts, as a count per
\* callback value.
StartedWith(inline, files, cb) ==
    Cardinality({i \in 1..Len(inline) : inline[i].cb = cb}) +
    Cardinality({i \in 1..Len(files) : files[i].key \in readable /\ files[i].cb = cb})

\* A did-finish-load event on w: each observer attached to w runs the two
\* forEach loops, and every iteration starts its insertCSS call on the
\* webContents the observer was set up with, which is w.
DidFinishLoad(w) ==
    /\ loads < MaxLoads
    /\ loads' = loads + 1
    /\ LET started == IF listeners[w] > 0
                         THEN StartedBy(cssToInject, cssToInjectFile) ELSE {}
           n == listeners[w] * Cardinality(StartedBy(cssToInject, cssToInjectFile))
       IN /\ insertCalls' = [insertCalls EXCEPT ![w] = @ + n]
          /\ lastLoad' = [target |-> w, started |-> started, calls |-> n,
                          perEntry |-> listeners[w],
                          registered |-> registeredFor[w]]
    /\ inflight' = [t \in Targets, cb \in Callbacks |->
                      IF t = w
                         THEN inflight[t, cb] + listeners[w] *
                                  StartedWith(cssToInject, cssToInjectFile, cb)
                         ELSE inflight[t, cb]]
    /\ UNCHANGED <<cssToInject, cssToInjectFile, listeners, readable, cbCalls,
                   registeredFor>>
    /\ UNCHANGED <<pluginVars, menuVars>>

\* An insertCSS promise resolves: the await returns and callback?.() runs.
InsertResolved(w, cb) ==
    /\ inflight[w, cb] > 0
    /\ inflight' = [inflight EXCEPT ![w, cb] = @ - 1]
    /\ cbCalls' = IF cb # Undefined THEN cbCalls + 1 ELSE cbCalls
    /\ UNCHANGED <<cssToInject, cssToInjectFile, listeners, readable, insertCalls,
                   registeredFor, loads, lastLoad>>
    /\ UNCHANGED <<pluginVars, menuVars>>

\* An insertCSS promise rejects: the async callback ends there, uncaught.
InsertRejected(w, cb) ==
    /\ inflight[w, cb] > 0
    /\ inflight' = [inflight EXCEPT ![w, cb] = @ - 1]
    /\ UNCHANGED <<cssToInject, cssToInjectFile, listeners, readable, insertCalls,
                   cbCalls, registeredFor, loads, lastLoad>>
    /\ UNCHANGED <<pluginVars, menuVars>>

NoLoad == [target |-> Undefined, started |-> {}, calls |-> 0, perEntry |-> 0,
           registered |-> {}]

CssIdle ==
    /\ cssToInject = <<>>
    /\ cssToInjectFile = <<>>
    /\ listeners = [t \in Targets |-> 0]
    /\ inflight = [t \in Targets, cb \in Callbacks |-> 0]
    /\ insertCalls = [t \in Targets |-> 0]
    /\ cbCalls = 0
    /\ registeredFor = [t \in Targets |-> {}]
    /\ loads = 0
    /\ lastLoad = NoLoad

PluginsIdle ==
    /\ platform = "linux"
    /\ declared = defaultPluginKeys
    /\ names = <<>>
    /\ called = FALSE


(***************************************************************************)
(* Config Store                                                            *)
(***************************************************************************)

\* Dotted paths, as the tuple of their keys.
TrayPath == <<"options", "tray">>
AppVisiblePath == <<"options", "appVisible">>
RestartPath == <<"options", "restartOnConfigChanges">>
ProxyPath == <<"options", "proxy">>
AutoUpdatesPath == <<"options", "autoUpdates">>
ResumeOnStartPath == <<"options", "resumeOnStart">>
StartingPagePath == <<"options", "startingPage">>
RemoveUpgradeButtonPath == <<"options", "removeUpgradeButton">>
LikeButtonsPath == <<"options", "likeButtons">>
ThemesPath == <<"options", "themes">>
AlwaysOnTopPath == <<"options", "alwaysOnTop">>
HideMenuPath == <<"options", "hideMenu">>
HideMenuWarnedPath == <<"options", "hideMenuWarned">>
StartAtLoginPath == <<"options", "startAtLogin">>
TrayClickPlayPausePath == <<"options", "trayClickPlayPause">>
OverrideUserAgentPath == <<"options", "overrideUserAgent">>
DisableHardwareAccelerationPath == <<"options", "disableHardwareAcceleration">>
AutoResetAppCachePath == <<"options", "autoResetAppCache">>
EnabledPath(plugin) == <<"plugins", plugin, "enabled">>

\* The paths for which set() triggers no restart. The spec names none.
ExemptPaths == {}

\* The value of a nested object at a path, Undefined where a key is absent.
RECURSIVE Lookup(_, _)
Lookup(obj, path) ==
    IF path = <<>> THEN obj
    ELSE IF Head(path) \in DOMAIN obj THEN Lookup(obj[Head(path)], Tail(path))
    ELSE Undefined

DefaultAt(path) == Lookup(defaultConfig, path)

\* get(path) on a store s: the stored value, else the default table's.
GetIn(s, path) == IF path \in DOMAIN s THEN s[path] ELSE DefaultAt(path)
get(path) == GetIn(store, path)

\* The store after set(path, v) has persisted v.
Written(s, path, v) ==
    [q \in DOMAIN s \cup {path} |-> IF q = path THEN v ELSE s[q]]

\* Whether set(path, ...) triggers a restart, s being the store it has written.
RestartTriggered(s, path) ==
    path \notin ExemptPaths /\ GetIn(s, RestartPath)

\* Whether get(path) on store s gives a value at all (not undefined).
RECURSIVE Has(_, _)
Has(obj, path) ==
    \/ path = <<>>
    \/ Head(path) \in DOMAIN obj /\ Has(obj[Head(path)], Tail(path))
Defined(s, path) == path \in DOMAIN s \/ Has(defaultConfig, path)

\* The checked state a checkbox gets from "checked: config.get(path)" for a
\* path that holds a boolean when it holds anything: undefined is unchecked.
CheckedAt(s, path) == IF Defined(s, path) THEN GetIn(s, path) ELSE FALSE

isEnabledIn(s, plugin) == GetIn(s, EnabledPath(plugin))
isEnabled(plugin) == isEnabledIn(store, plugin)

\* JavaScript truthiness of a string-or-undefined value: !!v.
Truthy(v) == v # Undefined /\ v # ""

(***************************************************************************)
(* Menu builder                                                            *)
(***************************************************************************)

MaxPrompts == 2      \* setProxy prompts pending at once
ProxyInputs == {"", "socks5://127.0.0.1:9999"}
Cancelled == "<null>"    \* what prompt() resolves to when the user cancels

betaPlugins == {"crossfade", "lumiastream"}

\* A label is the sequence of the strings it is concatenated from; <<>> is ''.
pluginLabel(plugin) ==
    IF plugin \in betaPlugins THEN <<plugin, " [beta]">> ELSE <<plugin>>

\* The plugins the Plugins submenu lists.
getAllPlugins == getAvailablePluginNames(platform, declared)

\* The checkbox pluginEnabledMenu returns. refresh is what its click handler's
\* "if (hasSubmenu) refreshMenu?.()" does: it rebuilds the menu exactly when
\* hasSubmenu is set and a refreshMenu was passed.
\* The mutant: the handler never calls refreshMenu.
pluginEnabledMenu_NoRefresh(s, plugin, label, hasSubmenu, hasRefreshMenu) ==
    [plugin |-> plugin, label |-> IF label # <<>> THEN label ELSE <<plugin>>,
     type |-> "checkbox",
     checked |-> isEnabledIn(s, plugin),
     refresh |-> FALSE,
     submenu |-> <<>>]

pluginEnabledMenu(s, plugin, label, hasSubmenu, hasRefreshMenu) ==
    [plugin |-> plugin, label |-> IF label # <<>> THEN label ELSE <<plugin>>,
     type |-> "checkbox",
     checked |-> isEnabledIn(s, plugin),
     refresh |-> hasSubmenu /\ hasRefreshMenu,
     submenu |-> <<>>]

\* The mutant: the submenu form whenever menu.js exists.
PluginEntry_IgnoresEnabled(s, hm, plugin) ==
    IF plugin \in hm
        THEN [plugin |-> plugin, label |-> pluginLabel(plugin), type |-> "submenu",
              checked |-> isEnabledIn(s, plugin), refresh |-> TRUE,
              submenu |-> <<"checkbox:Enabled", "separator", "pluginMenu">>]
        ELSE pluginEnabledMenu(s, plugin, pluginLabel(plugin), FALSE, FALSE)

\* One entry of the Plugins submenu, built from store s; hm are the plugins
\* whose menu.js exists. For the submenu form, checked and refresh are those of
\* its 'Enabled' checkbox and "pluginMenu" stands for the items the plugin's
\* menu.js contributes.
PluginEntry(s, hm, plugin) ==
    IF plugin \in hm
        THEN IF ~isEnabledIn(s, plugin)
                THEN pluginEnabledMenu(s, plugin, pluginLabel(plugin), TRUE, TRUE)
                ELSE [plugin |-> plugin, label |-> pluginLabel(plugin), type |-> "submenu",
                      checked |-> pluginEnabledMenu(s, plugin, <<"Enabled">>, TRUE, TRUE).checked,
                      refresh |-> pluginEnabledMenu(s, plugin, <<"Enabled">>, TRUE, TRUE).refresh,
                      submenu |-> <<"checkbox:Enabled", "separator", "pluginMenu">>]
        ELSE pluginEnabledMenu(s, plugin, pluginLabel(plugin), FALSE, FALSE)

\* The three radio items of the Tray submenu, each with its template's checked.
TrayTemplate(tray, appVisible) ==
    [disabled |-> ~tray,
     visible |-> tray /\ appVisible,
     hidden |-> tray /\ ~appVisible]

\* The checkboxes of the Options submenu whose handler is
\* setMenuOption(path, item.checked), by their path, on platform p: 'Hide
\* menu' is built on Windows and Linux only, 'Start at login' on Windows and
\* macOS only.
OptionCheckboxes(p) ==
    {AutoUpdatesPath, ResumeOnStartPath, RemoveUpgradeButtonPath, AlwaysOnTopPath,
     TrayClickPlayPausePath, OverrideUserAgentPath,
     DisableHardwareAccelerationPath, AutoResetAppCachePath}
        \cup (IF isWindows(p) \/ isLinux(p) THEN {HideMenuPath} ELSE {})
        \cup (IF isWindows(p) \/ isMacOS(p) THEN {StartAtLoginPath} ELSE {})

\* Their template's checked.
OptionsTemplate(s, p) == [path \in OptionCheckboxes(p) |-> CheckedAt(s, path)]

\* The Proxy checkbox's template checked.
ProxyTemplate(s) == Truthy(GetIn(s, ProxyPath))

\* mainMenuTemplate on store s: the parts of the tree the handlers below act
\* on. The Proxy checkbox is kept apart, in proxyItem: its item object outlives
\* the menu while a setProxy holds it.
mainMenuTemplate(s, hm, plugins) ==
    [plugins |-> [i \in 1..Len(plugins) |-> PluginEntry(s, hm, plugins[i])],
     options |-> OptionsTemplate(s, platform),
     singleInstanceLock |-> TRUE,
     tray |-> TrayTemplate(GetIn(s, TrayPath), GetIn(s, AppVisiblePath)),
     restartOnConfigChanges |-> GetIn(s, RestartPath)]


\* proxyItem holds the checked state of the Proxy item objects that can still
\* be reached: the installed menu's, which is the last, and before it those of
\* replaced menus that a pending setProxy holds. A prompt names its item by
\* its place in proxyItem.
Installed == Len(proxyItem)

\* The places of the items still reachable, prs being the pending prompts.
Live(items, prs) == {Len(items)} \cup {prs[i].item : i \in 1..Len(prs)}
Rank(k, L) == Cardinality({j \in L : j <= k})

\* The items and the prompts with the unreachable items dropped.
LiveItems(items, prs) ==
    [n \in 1..Cardinality(Live(items, prs)) |->
        items[CHOOSE k \in Live(items, prs) : Rank(k, Live(items, prs)) = n]]
LivePrompts(items, prs) ==
    [i \in 1..Len(prs) |-> [prs[i] EXCEPT !.item = Rank(@, Live(items, prs))]]

\* A process start: the menu is built from the persisted store, and the item
\* objects and pending prompts of the process before are gone.
Boot(s) ==
    /\ menu' = mainMenuTemplate(s, hasMenu, getAllPlugins)
    /\ proxyItem' = <<ProxyTemplate(s)>>
    /\ prompts' = <<>>
    /\ themeDialogs' = 0

\* setApplicationMenu(win), as refreshMenu calls it: a new menu, with new item
\* objects, replaces the installed one. The Proxy items of the menus before
\* live on where a pending setProxy holds them.
setApplicationMenu(s) ==
    /\ menu' = mainMenuTemplate(s, hasMenu, getAllPlugins)
    /\ proxyItem' = LiveItems(Append(proxyItem, ProxyTemplate(s)), prompts)
    /\ prompts' = LivePrompts(Append(proxyItem, ProxyTemplate(s)), prompts)
    /\ UNCHANGED themeDialogs

\* What the click handler of a plugin's checkbox stores for the plugin, the
\* item being checked or not: enable(plugin) or disable(plugin).
pluginClickStores(checked) == IF checked THEN TRUE ELSE FALSE

\* A click on the enabled-checkbox of the i-th entry of the Plugins submenu.
\* The menu toggles the item, then runs the handler.
ClickPlugin(i) ==
    LET e == menu.plugins[i]
        checked == ~e.checked
        s1 == Written(store, EnabledPath(e.plugin), pluginClickStores(checked))
        restart == RestartTriggered(s1, EnabledPath(e.plugin))
    IN /\ store' = s1
       /\ IF restart THEN Boot(s1)
          ELSE IF e.refresh THEN setApplicationMenu(s1)
          ELSE /\ menu' = [menu EXCEPT !.plugins[i].checked = checked]
               /\ UNCHANGED <<proxyItem, prompts, themeDialogs>>
       /\ last' = [op |-> "plugin", plugin |-> e.plugin, checked |-> checked]
       /\ UNCHANGED <<hasMenu, restartReturns>>
       /\ UNCHANGED <<pluginVars, cssVars>>

TrayItems == {"Disabled", "Enabled + app visible", "Enabled + app hidden"}

\* The two values a Tray radio item's handler writes: <<tray, appVisible>>.
\* The mutant: 'Enabled + app hidden' leaves the app visible.
TrayWrites_HiddenStaysVisible(item) ==
    CASE item = "Disabled" -> <<FALSE, TRUE>>
      [] item = "Enabled + app visible" -> <<TRUE, TRUE>>
      [] item = "Enabled + app hidden" -> <<TRUE, TRUE>>

TrayWrites(item) ==
    CASE item = "Disabled" -> <<FALSE, TRUE>>
      [] item = "Enabled + app visible" -> <<TRUE, TRUE>>
      [] item = "Enabled + app hidden" -> <<TRUE, FALSE>>

\* A click on a Tray radio item: setMenuOption('options.tray', ...), then
\* setMenuOption('options.appVisible', ...), two consecutive calls. Where the
\* first write triggers a restart and restart() does not return, the process
\* ends there and the second call is never made; where restart() returns, the
\* handler makes both writes and the application restarts after it.
\* last.completed: the handler made both its writes.
ClickTray(item) ==
    LET w == TrayWrites(item)
        s1 == Written(store, TrayPath, w[1])
        r1 == RestartTriggered(s1, TrayPath)
        ended == r1 /\ ~restartReturns
        s2 == Written(s1, AppVisiblePath, w[2])
        r2 == RestartTriggered(s2, AppVisiblePath)
    IN /\ store' = IF ended THEN s1 ELSE s2
       /\ IF r1 \/ r2
             THEN Boot(store')
             ELSE /\ menu' = [menu EXCEPT !.tray =
                                 [disabled |-> item = "Disabled",
                                  visible |-> item = "Enabled + app visible",
                                  hidden |-> item = "Enabled + app hidden"]]
                  /\ UNCHANGED <<proxyItem, prompts, themeDialogs>>
       /\ last' = [op |-> "tray", item |-> item, completed |-> ~ended]
       /\ UNCHANGED <<hasMenu, restartReturns>>
       /\ UNCHANGED <<pluginVars, cssVars>>

\* A click on a checkbox of the Options submenu whose handler is
\* setMenuOption(path, item.checked): the menu toggles the item, then the
\* handler stores its checked state. Two handlers go on after the write:
\* 'Always on top' calls win.setAlwaysOnTop(item.checked), and 'Hide menu'
\* shows a message box when the item is checked and options.hideMenuWarned is
\* not set. Where the write triggers a restart and restart() does not return,
\* the process ends at the write and neither is done.
ClickOptionCheckbox(path) ==
    LET checked == ~menu.options[path]
        s1 == Written(store, path, checked)
        restart == RestartTriggered(s1, path)
    IN /\ store' = s1
       /\ IF restart
             THEN Boot(s1)
             ELSE /\ menu' = [menu EXCEPT !.options[path] = checked]
                  /\ UNCHANGED <<proxyItem, prompts, themeDialogs>>
       /\ last' = [op |-> "option", path |-> path, checked |-> checked,
                   then |-> IF restart /\ ~restartReturns THEN "none"
                            ELSE IF path = AlwaysOnTopPath THEN "setAlwaysOnTop"
                            ELSE IF /\ path = HideMenuPath
                                    /\ checked
                                    /\ ~CheckedAt(s1, HideMenuWarnedPath)
                                    THEN "showMessageBox"
                            ELSE "none"]
       /\ UNCHANGED <<hasMenu, restartReturns>>
       /\ UNCHANGED <<pluginVars, cssVars>>

\* The names of the starting pages (the keys of startingPages).
StartingPageNames == {"Default", "Home"}

\* The values the three 'Like buttons' radio items store.
LikeButtonsValues == {"", "force", "hide"}

\* A click on a radio item whose handler is config.set(path, value) with a
\* value of its own: a 'Starting page' item, a 'Like buttons' item, or the
\* Theme submenu's 'No theme', which stores the empty list. The handler does
\* not read the item, and no handler reads the checked state of these radios.
ClickOptionRadio(path, value) ==
    LET s1 == Written(store, path, value)
    IN /\ store' = s1
       /\ IF RestartTriggered(s1, path)
             THEN Boot(s1)
             ELSE UNCHANGED <<menu, proxyItem, prompts, themeDialogs>>
       /\ last' = [op |-> "radio", path |-> path, value |-> value]
       /\ UNCHANGED <<hasMenu, restartReturns>>
       /\ UNCHANGED <<pluginVars, cssVars>>

OptionRadios ==
    {<<StartingPagePath, name>> : name \in StartingPageNames}
        \cup {<<LikeButtonsPath, v>> : v \in LikeButtonsValues}
        \cup {<<ThemesPath, <<>>>>}

MaxDialogs == 1      \* 'Import custom CSS file' dialogs open at once

\* What the open-file dialog resolves to: the files chosen, none on a cancel.
FilePathChoices == {<<>>, <<"theme.css">>}

\* A click on 'Import custom CSS file': the handler opens the dialog and
\* awaits it.
ClickImportTheme ==
    /\ themeDialogs < MaxDialogs
    /\ themeDialogs' = themeDialogs + 1
    /\ last' = [op |-> "importThemeClick"]
    /\ UNCHANGED <<store, hasMenu, restartReturns, menu, proxyItem, prompts>>
    /\ UNCHANGED <<pluginVars, cssVars>>

\* An open dialog resolves and the handler goes on: "if (filePaths)" holds of
\* every array, the empty one too, so the handler stores what it got.
ImportThemeResolved(filePaths) ==
    LET s1 == Written(store, ThemesPath, filePaths)
    IN /\ themeDialogs > 0
       /\ store' = s1
       /\ IF RestartTriggered(s1, ThemesPath)
             THEN Boot(s1)
             ELSE /\ themeDialogs' = themeDialogs - 1
                  /\ UNCHANGED <<menu, proxyItem, prompts>>
       /\ last' = [op |-> "importTheme", filePaths |-> filePaths]
       /\ UNCHANGED <<hasMenu, restartReturns>>
       /\ UNCHANGED <<pluginVars, cssVars>>

\* A click on 'Single instance lock': the menu toggles the item, then the
\* handler releases the lock if the item is unchecked and the lock is held,
\* and requests it if the item is checked and the lock is not held. Whether
\* the lock is held is Electron's to say: hasLock is what
\* app.hasSingleInstanceLock() answers.
ClickSingleInstanceLock(hasLock) ==
    LET checked == ~menu.singleInstanceLock
    IN /\ menu' = [menu EXCEPT !.singleInstanceLock = checked]
       /\ last' = [op |-> "singleInstanceLock", checked |-> checked,
                   then |-> IF ~checked /\ hasLock THEN "releaseSingleInstanceLock"
                            ELSE IF checked /\ ~hasLock THEN "requestSingleInstanceLock"
                            ELSE "none"]
       /\ UNCHANGED <<store, hasMenu, restartReturns, proxyItem, prompts, themeDialogs>>
       /\ UNCHANGED <<pluginVars, cssVars>>

\* A click on 'Restart on config changes'.
ClickRestartOnConfigChanges ==
    LET checked == ~menu.restartOnConfigChanges
        s1 == Written(store, RestartPath, checked)
    IN /\ store' = s1
       /\ IF RestartTriggered(s1, RestartPath)
             THEN Boot(s1)
             ELSE /\ menu' = [menu EXCEPT !.restartOnConfigChanges = checked]
                  /\ UNCHANGED <<proxyItem, prompts, themeDialogs>>
       /\ last' = [op |-> "restartOnConfigChanges", checked |-> checked]
       /\ UNCHANGED <<hasMenu, restartReturns>>
       /\ UNCHANGED <<pluginVars, cssVars>>

\* A click on 'Restart App'.
ClickRestartApp ==
    /\ Boot(store)
    /\ last' = [op |-> "restartApp"]
    /\ UNCHANGED <<store, hasMenu, restartReturns>>
    /\ UNCHANGED <<pluginVars, cssVars>>

\* A click on the Proxy checkbox of the installed menu: the menu toggles the
\* item, the handler calls setProxy(item, win), which opens the prompt and
\* awaits it.
ClickProxy ==
    /\ Len(prompts) < MaxPrompts
    /\ proxyItem' = [proxyItem EXCEPT ![Installed] = ~@]
    /\ prompts' = Append([i \in 1..Len(prompts) |-> [prompts[i] EXCEPT !.alone = FALSE]],
                         [item |-> Installed,
                          preChecked |-> proxyItem[Installed],
                          preProxy |-> get(ProxyPath),
                          alone |-> prompts = <<>>])
    /\ last' = [op |-> "proxyClick"]
    /\ UNCHANGED <<store, hasMenu, restartReturns, menu, themeDialogs>>
    /\ UNCHANGED <<pluginVars, cssVars>>

\* setProxy after the await: what item.checked is assigned, given the prompt's
\* output and the item's checked state at that moment.
\* The mutant: a cancel leaves the checkbox as the click toggled it.
setProxyChecked_NoRevert(output, checked) ==
    IF output # Cancelled THEN output # "" ELSE checked

setProxyChecked(output, checked) ==
    IF output # Cancelled THEN output # "" ELSE ~checked

RemoveAt(seq, i) == [j \in 1..(Len(seq) - 1) |-> IF j < i THEN seq[j] ELSE seq[j + 1]]

\* The i-th pending prompt resolves with output (a string, or Cancelled) and
\* setProxy runs to its end. last.checked is the checked state the item that
\* was clicked ends with or, where the write restarts the application, that of
\* the Proxy checkbox of the menu the new process builds.
setProxy(i, output) ==
    LET pr == prompts[i]
        s1 == IF output # Cancelled THEN Written(store, ProxyPath, output) ELSE store
        restart == output # Cancelled /\ RestartTriggered(s1, ProxyPath)
    IN /\ store' = s1
       /\ IF restart
             THEN Boot(s1)
             ELSE LET items == [proxyItem EXCEPT ![pr.item] = setProxyChecked(output, @)]
                      rest == RemoveAt(prompts, i)
                  IN /\ proxyItem' = LiveItems(items, rest)
                     /\ prompts' = LivePrompts(items, rest)
                     /\ UNCHANGED <<menu, themeDialogs>>
       /\ last' = [op |-> "setProxy", output |-> output, prompt |-> pr,
                   checked |-> IF restart
                                  THEN ProxyTemplate(s1)
                                  ELSE setProxyChecked(output, proxyItem[pr.item])]
       /\ UNCHANGED <<hasMenu, restartReturns>>
       /\ UNCHANGED <<pluginVars, cssVars>>

NoEvent == [op |-> "none"]

MenuIdle ==
    /\ store = <<>>
    /\ hasMenu = {}
    /\ restartReturns = TRUE
    /\ menu = mainMenuTemplate(<<>>, {}, <<>>)
    /\ proxyItem = <<FALSE>>
    /\ prompts = <<>>
    /\ themeDialogs = 0
    /\ last = NoEvent

(***************************************************************************)
(* Specifications                                                          *)
(***************************************************************************)

\* ---- SpecPlugins: getAvailablePluginNames on every platform and table
CallGetAvailablePluginNames ==
    /\ ~called
    /\ called' = TRUE
    /\ names' = getAvailablePluginNames(platform, declared)
    /\ UNCHANGED <<platform, declared>>
    /\ UNCHANGED <<cssVars, menuVars>>

InitPlugins ==
    /\ platform \in Platforms
    /\ declared \in DeclaredTables
    /\ names = <<>>
    /\ called = FALSE
    /\ readable = FilePaths
    /\ CssIdle
    /\ MenuIdle

NextPlugins == CallGetAvailablePluginNames

SpecPlugins == InitPlugins /\ [][NextPlugins]_vars

\* ---- SpecCss: the CSS injection helper
InitCss ==
    /\ PluginsIdle
    /\ readable \in SUBSET FilePaths
    /\ CssIdle
    /\ MenuIdle

NextCss ==
    \/ \E w \in Targets, css \in CssTexts, cb \in Callbacks : injectCSS(w, css, cb)
    \/ \E w \in Targets, f \in FilePaths, cb \in Callbacks : injectCSSAsFile(w, f, cb)
    \/ \E w \in Targets : DidFinishLoad(w)
    \/ \E w \in Targets, cb \in Callbacks : InsertResolved(w, cb)
    \/ \E w \in Targets, cb \in Callbacks : InsertRejected(w, cb)

SpecCss == InitCss /\ [][NextCss]_vars

\* ---- Spec: the Plugins and Options submenus and the Config Store, from a
\* first run. SpecProxy: the Proxy checkbox and its prompt, with the restarts
\* and the menu rebuilds that can come between a click and its prompt's end.
\* The handlers of Spec neither read nor write the Proxy item, the prompts or
\* options.proxy: to the Proxy checkbox they are menu rebuilds and restarts,
\* which SpecProxy takes from the checkbox of one plugin and from the two
\* restart items.
RebuildPlugins == {"downloader"}

\* Spec follows the runs in which at most MaxStored settings have been stored
\* since the first run, the two flags of the Tray radio group counting as one
\* setting and the themes an open dialog is about to store as stored. It starts on the platform whose Options submenu has both
\* 'Hide menu' and 'Start at login', with a menu.js for one plugin that is
\* enabled by default and for one that is not; the other two plugins have
\* none.
MaxStored == 2
Setting(path) == IF path = AppVisiblePath THEN TrayPath ELSE path
WithinMaxStored ==
    Cardinality({Setting(path) : path \in DOMAIN store'}
                    \cup (IF themeDialogs' > 0 THEN {ThemesPath} ELSE {})) <= MaxStored
MenuPlatforms == {"win32"}
HookSets == {{"adblocker", "downloader"}}

\* restart (providers/app-controls) is not among the source files, and the
\* specification leaves the restart signal to it: a run is of a build whose
\* restart() returns to its caller or of one whose restart() does not.
InitFrom(platforms, hookSets) ==
    /\ platform \in platforms
    /\ declared = defaultPluginKeys
    /\ names = <<>>
    /\ called = FALSE
    /\ readable = FilePaths
    /\ CssIdle
    /\ store = <<>>
    /\ hasMenu \in hookSets
    /\ restartReturns \in BOOLEAN
    /\ menu = mainMenuTemplate(store, hasMenu, getAllPlugins)
    /\ proxyItem = <<ProxyTemplate(store)>>
    /\ prompts = <<>>
    /\ themeDialogs = 0
    /\ last = NoEvent

Init == InitFrom(MenuPlatforms, HookSets)

Next ==
    \/ \E i \in 1..Len(menu.plugins) : ClickPlugin(i) /\ WithinMaxStored
    \/ \E path \in DOMAIN menu.options : ClickOptionCheckbox(path) /\ WithinMaxStored
    \/ \E r \in OptionRadios : ClickOptionRadio(r[1], r[2]) /\ WithinMaxStored
    \/ ClickImportTheme /\ WithinMaxStored
    \/ \E filePaths \in FilePathChoices : ImportThemeResolved(filePaths) /\ WithinMaxStored
    \/ \E hasLock \in BOOLEAN : ClickSingleInstanceLock(hasLock)
    \/ \E item \in TrayItems : ClickTray(item) /\ WithinMaxStored
    \/ ClickRestartOnConfigChanges /\ WithinMaxStored
    \/ ClickRestartApp

Spec == Init /\ [][Next]_vars

InitProxy == InitFrom(Platforms, SUBSET RebuildPlugins)

NextProxy ==
    \/ \E i \in 1..Len(menu.plugins) :
          menu.plugins[i].plugin \in RebuildPlugins /\ ClickPlugin(i)
    \/ ClickRestartOnConfigChanges
    \/ ClickRestartApp
    \/ ClickProxy
    \/ \E i \in 1..Len(prompts), output \in ProxyInputs \cup {Cancelled} : setProxy(i, output)

SpecProxy == InitProxy /\ [][NextProxy]_vars


(***************************************************************************)
(* Properties                                                              *)
(***************************************************************************)

TrayPair == <<get(TrayPath), get(AppVisiblePath)>>
ExactlyOneChecked(t) ==
    Cardinality({k \in {"disabled", "visible", "hidden"} : t[k]}) = 1
SubmenuForm == <<"checkbox:Enabled", "separator", "pluginMenu">>

\* C1: whatever the two flags options.tray and options.appVisible hold, the
\* template checks exactly one of the three Tray radio items; and once the
\* click handler of an item has run to completion the stored pair is that
\* item's: Disabled -> (false, true), Enabled + app visible -> (true, true),
\* Enabled + app hidden -> (true, false), whatever it was before.
C1_TrayRadioGroup ==
    /\ \A t, a \in BOOLEAN : ExactlyOneChecked(TrayTemplate(t, a))
    /\ ExactlyOneChecked(TrayTemplate(get(TrayPath), get(AppVisiblePath)))
    /\ ExactlyOneChecked(menu.tray)
    /\ (last.op = "tray" /\ last.completed) =>
          /\ last.item = "Disabled" => TrayPair = <<FALSE, TRUE>>
          /\ last.item = "Enabled + app visible" => TrayPair = <<TRUE, TRUE>>
          /\ last.item = "Enabled + app hidden" => TrayPair = <<TRUE, FALSE>>

\* The handler of 'Enabled + app hidden' has run to completion and the pair is
\* (true, false).
C1_Witness ==
    /\ last.op = "tray" /\ last.completed
    /\ last.item = "Enabled + app hidden"
    /\ TrayPair = <<TRUE, FALSE>>
    /\ TrayTemplate(get(TrayPath), get(AppVisiblePath)).hidden

\* C2: one click on the Proxy checkbox, its prompt the only one open from the
\* click until it ends, ends in one of three ways. Cancel: no config write, and
\* get('options.proxy') and the checkbox are as before the click. Empty
\* string: get('options.proxy') is '' and the checkbox is unchecked. A
\* non-empty string s: get('options.proxy') is s and the checkbox is checked.
\* The checkbox is the item that was clicked; it is the one the installed menu
\* shows unless the menu was rebuilt since the click.
C2_ProxyPromptOutcomes ==
    [][(last'.op = "setProxy" /\ last'.prompt.alone)
       => /\ last'.output = Cancelled =>
                /\ store' = store
                /\ GetIn(store', ProxyPath) = last'.prompt.preProxy
                /\ last'.checked = last'.prompt.preChecked
          /\ last'.output = "" =>
                /\ GetIn(store', ProxyPath) = ""
                /\ ~last'.checked
          /\ last'.output \notin {Cancelled, ""} =>
                /\ GetIn(store', ProxyPath) = last'.output
                /\ last'.checked
          /\ last'.prompt.item = Installed =>
                proxyItem'[Len(proxyItem')] = last'.checked]_vars

\* A proxy was stored, the checked Proxy box was clicked, and the prompt was
\* cancelled: the box is checked again and the proxy is the one stored.
C2_Witness ==
    /\ last.op = "setProxy" /\ last.output = Cancelled
    /\ last.prompt.alone
    /\ last.prompt.preChecked
    /\ Truthy(last.prompt.preProxy)
    /\ get(ProxyPath) = last.prompt.preProxy
    /\ last.checked
    /\ proxyItem[Installed]

\* Entries whose stylesheet can be had: inline text, or a file that can be read.
Available(e) == e[1] = "inline" \/ e[2] \in readable

\* C3: after k stylesheets have been registered for a target, every
\* did-finish-load event on that target starts one insertCSS call for each of
\* the k (so two stylesheets and two events give four calls, two per event).
C3_EveryLoadAppliesRegistered ==
    lastLoad.target # Undefined =>
        \A e \in lastLoad.registered :
            Available(e) => (e \in lastLoad.started /\ lastLoad.perEntry = 1)

\* C4: every target with at least one registration has exactly one
\* did-finish-load observer (the first registration for the target attaches
\* it, later ones attach none).
C4_OneObserverPerTarget ==
    \A w \in Targets : registeredFor[w] # {} => listeners[w] = 1

\* C5: getAvailablePluginNames returns the declared keys in declaration order
\* minus exactly the names reserved for another platform: 'touchbar' on every
\* platform other than macOS, 'taskbar-mediacontrol' on every platform other
\* than Windows.
C5_ReservedNamesFiltered ==
    called =>
        names = SelectSeq(declared,
                    LAMBDA n : /\ ~(n = "touchbar" /\ platform # "darwin")
                               /\ ~(n = "taskbar-mediacontrol" /\ platform # "win32"))

\* C6, as claimed: the form of a plugin's entry depends only on whether its
\* menu.js exists: a submenu (Enabled checkbox, separator, contributed items)
\* if it does, a bare checkbox if not.
C6_FormByHookOnly ==
    \A i \in 1..Len(menu.plugins) :
        LET e == menu.plugins[i]
        IN IF e.plugin \in hasMenu
              THEN e.type = "submenu" /\ e.submenu = SubmenuForm
              ELSE e.type = "checkbox" /\ e.submenu = <<>>

\* C6, amended: the entry is the submenu (Enabled checkbox, separator,
\* contributed items) if the plugin's menu.js exists and the plugin is
\* enabled; it is a bare checkbox if menu.js does not exist or the plugin is
\* disabled.
C6_FormByHookAndEnabled ==
    \A i \in 1..Len(menu.plugins) :
        LET e == menu.plugins[i]
        IN IF e.plugin \in hasMenu /\ isEnabled(e.plugin)
              THEN e.type = "submenu" /\ e.submenu = SubmenuForm
              ELSE e.type = "checkbox" /\ e.submenu = <<>>

\* A plugin with a menu.js was disabled by a click and its entry is a bare
\* checkbox; another with a menu.js is enabled and its entry is the submenu.
C6_Witness ==
    /\ last.op = "plugin" /\ ~last.checked /\ last.plugin \in hasMenu
    /\ \E i \in 1..Len(menu.plugins) :
          /\ menu.plugins[i].plugin = last.plugin
          /\ menu.plugins[i].type = "checkbox"
    /\ \E i \in 1..Len(menu.plugins) :
          /\ menu.plugins[i].plugin \in hasMenu
          /\ menu.plugins[i].type = "submenu"

\* C8: a click on a plugin's checkbox stores the checkbox's new checked value;
\* in the installed menu every plugin's checkbox shows isEnabled(plugin), and
\* the entry of every plugin with a menu.js is the one the plugin's current
\* enabled state gives (the menu is never stale for it).
C8_MenuShowsEnabledState ==
    /\ last.op = "plugin" => isEnabled(last.plugin) = last.checked
    /\ \A i \in 1..Len(menu.plugins) :
          LET e == menu.plugins[i]
          IN /\ e.checked = isEnabled(e.plugin)
             /\ e.plugin \in hasMenu =>
                   /\ e.type = (IF isEnabled(e.plugin) THEN "submenu" ELSE "checkbox")
                   /\ e.submenu = (IF isEnabled(e.plugin) THEN SubmenuForm ELSE <<>>)

\* A plugin with a menu.js has just been enabled by a click, and the installed
\* menu shows its submenu.
C8_Witness ==
    /\ last.op = "plugin" /\ last.checked /\ last.plugin \in hasMenu
    /\ \E i \in 1..Len(menu.plugins) :
          /\ menu.plugins[i].plugin = last.plugin
          /\ menu.plugins[i].type = "submenu"
          /\ menu.plugins[i].checked

\* C10: whenever no proxy prompt is pending, the Proxy checkbox of the
\* installed menu is checked if and only if get('options.proxy') is a
\* non-empty string.
C10_ProxyCheckboxConsistent ==
    prompts = <<>> => (proxyItem[Installed] <=> Truthy(get(ProxyPath)))


====
